---- MODULE Spec2Model ----
(***************************************************************************)
(* Model of suno_generate_and_wait (src/src/run_pipeline.py, lines 106-302) *)
(* and of its nested normalizer parse_items.                               *)
(*                                                                         *)
(* JSON documents are modelled as tagged values; Python's None is JNull.   *)
(* Time is counted in quarter seconds, the step of the backoff formula     *)
(* min(poll_interval * (1 + attempt * 0.25), 8.0).                         *)
(***************************************************************************)
EXTENDS Integers, Sequences, FiniteSets, TLC

VARIABLES pc, api_key, timeout_sec, poll_interval, now, start, attempt,
          last_status, task_id, resp, outcome, result, calls, parsed, sleeps

vars == <<pc, api_key, timeout_sec, poll_interval, now, start, attempt,
          last_status, task_id, resp, outcome, result, calls, parsed, sleeps>>

(* ---------------------------- JSON values ------------------------------ *)

JNull == [t |-> "null"]
JStr(x) == [t |-> "str", s |-> x]
JNum(x) == [t |-> "num", n |-> x]
JList(x) == [t |-> "list", l |-> x]
JObj(x) == [t |-> "obj", kv |-> x]
JBool(x) == [t |-> "bool", b |-> x]

\* Marker used only while building documents: the key is left out.
Absent == [t |-> "absent"]

Field(k, v) == IF v = Absent THEN <<>> ELSE << <<k, v>> >>

IsDict(v) == v.t = "obj"

IsList(v) == v.t = "list"

\* Python truth value of a JSON value.
Truthy(v) ==
    CASE v.t = "null" -> FALSE
      [] v.t = "str"  -> v.s # ""
      [] v.t = "num"  -> v.n # 0
      [] v.t = "list" -> Len(v.l) > 0
      [] v.t = "obj"  -> Len(v.kv) > 0
      [] v.t = "bool" -> v.b

\* Python's  a or b .
PyOr(a, b) == IF Truthy(a) THEN a ELSE b

HasKey(d, k) == \E i \in 1..Len(d.kv) : d.kv[i][1] = k

\* dict.get(k, default)
DictGetDef(d, k, default) ==
    IF HasKey(d, k)
    THEN d.kv[CHOOSE i \in 1..Len(d.kv) : d.kv[i][1] = k][2]
    ELSE default

\* dict.get(k)
DictGet(d, k) == DictGetDef(d, k, JNull)

(* ------------------------- program constants --------------------------- *)

\* attempt * 0.25 = attempt / 4: one time unit of the model is 1/4 second.
BackoffStepDen == 4

\* The 8.0 second ceiling of the backoff.
MaxBackoffSec == 8

\* The provider's success code.
OkCode == 200

SUCCESS_STATUSES == {JStr("SUCCESS"), JStr("DONE"), JStr("COMPLETED")}

FAILED_STATUSES == {JStr("FAILED"), JStr("ERROR")}

(* ------------------------------ submit --------------------------------- *)

\* if isinstance(data, dict) and data.get("code") and data["code"] != 200
SubmitErrorCode(data) ==
    /\ IsDict(data)
    /\ Truthy(DictGet(data, "code"))
    /\ DictGet(data, "code") # JNum(OkCode)

\* data.get("data", {})
DataWrapper(data) == DictGetDef(data, "data", JObj(<<>>))

\* .get on a value that is not a dict raises AttributeError.
TaskIdRaises(data) == ~IsDict(data) \/ ~IsDict(DataWrapper(data))

\* The chain of  or  over the six candidate locations.
ExtractTaskId(data) ==
    PyOr(DictGet(DataWrapper(data), "taskId"),
    PyOr(DictGet(DataWrapper(data), "task_id"),
    PyOr(DictGet(DataWrapper(data), "workId"),
    PyOr(DictGet(data, "taskId"),
    PyOr(DictGet(data, "task_id"),
         DictGet(data, "workId"))))))

\* What the submit step does with the response r = [kind, doc].
SubmitResult(r) ==
    CASE r.kind = "exc"        -> [exc |-> "RequestException", task_id |-> JNull]
      [] r.kind = "http_error" -> [exc |-> "SubmissionError", task_id |-> JNull]
      [] r.kind = "not_json"   -> [exc |-> "SubmissionError", task_id |-> JNull]
      [] OTHER ->
           IF SubmitErrorCode(r.doc)
           THEN [exc |-> "SubmissionError", task_id |-> JNull]
           ELSE IF TaskIdRaises(r.doc)
           THEN [exc |-> "AttributeError", task_id |-> JNull]
           ELSE IF ~Truthy(ExtractTaskId(r.doc))
           THEN [exc |-> "SubmissionError", task_id |-> JNull]
           ELSE [exc |-> "none", task_id |-> ExtractTaskId(r.doc)]

(* ---------------------------- parse_items ------------------------------ *)

\* data_field = st.get("data") or {}
DataField(st) == PyOr(DictGet(st, "data"), JObj(<<>>))

\* both names under data tried before the top-level names
ParseStatus_DataFirst(st) ==
    PyOr(DictGet(DataField(st), "status"),
    PyOr(DictGet(DataField(st), "taskStatus"),
    PyOr(DictGet(st, "status"),
         DictGet(st, "taskStatus"))))

ParseStatus(st) ==
    PyOr(DictGet(DataField(st), "status"),
    PyOr(DictGet(st, "status"),
    PyOr(DictGet(DataField(st), "taskStatus"),
         DictGet(st, "taskStatus"))))

\* raw after the lookup under data.response
RawFromResponse(st) ==
    LET rsp == DictGet(DataField(st), "response")
    IN  IF IsDict(rsp)
        THEN PyOr(DictGet(rsp, "sunoData"), PyOr(DictGet(rsp, "data"), DictGet(rsp, "songs")))
        ELSE JNull

\* the fallback lookup without the top-level result
RawLocated_NoResult(st) ==
    IF RawFromResponse(st) = JNull
    THEN PyOr(DictGet(DataField(st), "sunoData"), DictGet(DataField(st), "data"))
    ELSE RawFromResponse(st)

\* raw after the fallback lookup (taken only if raw is None)
RawLocated(st) ==
    IF RawFromResponse(st) = JNull
    THEN PyOr(DictGet(DataField(st), "sunoData"),
         PyOr(DictGet(DataField(st), "data"), DictGet(st, "result")))
    ELSE RawFromResponse(st)

\* a single object dropped like any other value that is not a list
RawList_NoWrap(st) ==
    LET raw == RawLocated(st)
    IN  IF raw # JNull /\ ~IsList(raw) THEN JNull ELSE raw

\* raw normalised to a list or None
RawList(st) ==
    LET raw == RawLocated(st)
    IN  IF IsDict(raw) THEN JList(<<raw>>)
        ELSE IF raw # JNull /\ ~IsList(raw) THEN JNull
        ELSE raw

\* the streaming URL preferred over the source URL
Track_StreamFirst(it, data_field) ==
    JObj(<< <<"id", PyOr(DictGet(it, "id"), PyOr(DictGet(it, "musicId"), DictGet(it, "songId")))>>,
            <<"title", PyOr(DictGet(it, "title"),
                       PyOr(DictGet(data_field, "title"), JStr("MAS Demo Track")))>>,
            <<"audioUrl", PyOr(DictGet(it, "audioUrl"),
                          PyOr(DictGet(it, "streamAudioUrl"), DictGet(it, "sourceAudioUrl")))>>,
            <<"imageUrl", PyOr(DictGet(it, "imageUrl"), DictGet(it, "coverUrl"))>>,
            <<"raw", it>> >>)

\* One normalised item.
Track(it, data_field) ==
    JObj(<< <<"id", PyOr(DictGet(it, "id"), PyOr(DictGet(it, "musicId"), DictGet(it, "songId")))>>,
            <<"title", PyOr(DictGet(it, "title"),
                       PyOr(DictGet(data_field, "title"), JStr("MAS Demo Track")))>>,
            <<"audioUrl", PyOr(DictGet(it, "audioUrl"),
                          PyOr(DictGet(it, "sourceAudioUrl"), DictGet(it, "streamAudioUrl")))>>,
            <<"imageUrl", PyOr(DictGet(it, "imageUrl"), DictGet(it, "coverUrl"))>>,
            <<"raw", it>> >>)

\* the final  if not items: items = None  left out
ParseTracks_KeepEmpty(st) ==
    LET raw == RawList(st)
    IN  IF Truthy(raw)
        THEN LET dicts == SelectSeq(raw.l, IsDict)
             IN  JList([i \in 1..Len(dicts) |-> Track(dicts[i], DataField(st))])
        ELSE JNull

\* the loop over raw: an item that is not a dict is skipped
ParseTracks(st) ==
    LET raw == RawList(st)
    IN  IF Truthy(raw)
        THEN LET dicts == SelectSeq(raw.l, IsDict)
                 items == [i \in 1..Len(dicts) |-> Track(dicts[i], DataField(st))]
             IN  IF Len(items) = 0 THEN JNull ELSE JList(items)
        ELSE JNull

\* data_field.get on a value that is not a dict raises AttributeError.
ParseRaises(st) == ~IsDict(DataField(st))

parse_items(st) ==
    IF ParseRaises(st)
    THEN [exc |-> "AttributeError", status |-> JNull, items |-> JNull]
    ELSE [exc |-> "none", status |-> ParseStatus(st), items |-> ParseTracks(st)]

(* ----------------------------- poll loop ------------------------------- *)

Min(a, b) == IF a <= b THEN a ELSE b

\* the 8.0 second ceiling left out
Delay_NoCap(interval, n) == interval * (BackoffStepDen + n)

\* the delay computed from the number of the attempt before
Delay_PrevAttempt(interval, n) ==
    Min(interval * (BackoffStepDen + n - 1), MaxBackoffSec * BackoffStepDen)

\* min(poll_interval * (1 + attempt * 0.25), 8.0), in quarter seconds
Delay(interval, n) ==
    Min(interval * (BackoffStepDen + n), MaxBackoffSec * BackoffStepDen)

\* the deadline test with the comparison reversed
DeadlineOpen_Reversed(t, t0, limit) == t - t0 > limit * BackoffStepDen

\* the deadline test written with <= in place of <
DeadlineOpen_Inclusive(t, t0, limit) == t - t0 <= limit * BackoffStepDen

\* while time.time() - start < timeout_sec
DeadlineOpen(t, t0, limit) == t - t0 < limit * BackoffStepDen

\* the guard  if st:  left out
Usable_NoGuard(r) == r.kind # "non200"

\* s.status_code == 200, s.json() parsed, and  if st:
Usable(r) == r.kind = "json" /\ Truthy(r.doc)

\* the provider code of a poll response ignored
PollErrorCode_Ignored(st) == FALSE

\* if st.get("code") and st["code"] != 200
PollErrorCode(st) == Truthy(DictGet(st, "code")) /\ DictGet(st, "code") # JNum(OkCode)

\* status in {...} hashes status: a list or a dict raises TypeError.
Unhashable(v) == v.t \in {"list", "obj"}

\* last_status assigned from every response
NextLastStatus_Overwrite(status, ls) == status

\* if status and status != last_status: last_status = status
NextLastStatus(status, ls) == IF Truthy(status) /\ status # ls THEN status ELSE ls

\* a success status returns whatever items holds
StatusBranch_NoItemsTest(status, items) ==
    IF status \in SUCCESS_STATUSES THEN [act |-> "return", exc |-> "none"]
    ELSE IF status \in FAILED_STATUSES THEN [act |-> "raise", exc |-> "RemoteFailure"]
    ELSE [act |-> "continue", exc |-> "none"]

\* a failure status is polled again like a pending one
StatusBranch_FailedRetried(status, items) ==
    IF status \in SUCCESS_STATUSES /\ Truthy(items)
    THEN [act |-> "return", exc |-> "none"]
    ELSE [act |-> "continue", exc |-> "none"]

\* The branch taken on status and items once the document is parsed.
StatusBranch(status, items) ==
    IF Unhashable(status) THEN [act |-> "raise", exc |-> "TypeError"]
    ELSE IF status \in SUCCESS_STATUSES
    THEN IF Truthy(items) THEN [act |-> "return", exc |-> "none"]
         ELSE [act |-> "continue", exc |-> "none"]
    ELSE IF status \in FAILED_STATUSES
    THEN [act |-> "raise", exc |-> "RemoteFailure"]
    ELSE [act |-> "continue", exc |-> "none"]

\* The body of one fetch (the GET block and the POST block are the same code)
\* on the response r = [kind, doc], with last_status = ls.
HandleResponse(r, ls) ==
    IF r.kind = "exc" \/ ~Usable(r)
    THEN [act |-> "fallthrough", exc |-> "none", last_status |-> ls, tracks |-> JNull]
    ELSE IF ~IsDict(r.doc)
    THEN [act |-> "raise", exc |-> "AttributeError", last_status |-> ls, tracks |-> JNull]
    ELSE IF PollErrorCode(r.doc)
    THEN [act |-> "raise", exc |-> "RemoteFailure", last_status |-> ls, tracks |-> JNull]
    ELSE LET p == parse_items(r.doc)
         IN  IF p.exc # "none"
             THEN [act |-> "raise", exc |-> p.exc, last_status |-> ls, tracks |-> JNull]
             ELSE [act |-> StatusBranch(p.status, p.items).act,
                   exc |-> StatusBranch(p.status, p.items).exc,
                   last_status |-> NextLastStatus(p.status, ls),
                   tracks |-> p.items]

(* ------------------------------ inputs --------------------------------- *)

MaxTimeoutSec == 10

MaxPollInterval == 6

MaxNetDur == 3

\* a deadline long enough for the backoff to grow up to its ceiling
LongTimeoutSec == 130

Timeouts == {1, MaxTimeoutSec}

PollIntervals == {1, MaxPollInterval}

\* how long one network call may take, in quarter seconds
NetDurs == {1, MaxNetDur}

ApiKeys == {"", "key"}

NoResp == [op |-> "none", kind |-> "none", doc |-> JNull]

NoCalls == [submit |-> 0, get |-> 0, post |-> 0, sleep |-> 0]

\* no call of parse_items observed on its own
NoParse == [exc |-> "none", status |-> JNull, items |-> JNull]

SubmitResponses(docs) ==
    {[kind |-> k, doc |-> JNull] : k \in {"exc", "http_error", "not_json"}}
    \cup {[kind |-> "json", doc |-> d] : d \in docs}

PollResponses(docs) ==
    {[kind |-> k, doc |-> JNull] : k \in {"exc", "non200", "not_json"}}
    \cup {[kind |-> "json", doc |-> d] : d \in docs}

(* ----------------------------- documents ------------------------------- *)

Item1 == JObj(<< <<"id", JStr("t1")>>, <<"audioUrl", JStr("https://x/a.mp3")>> >>)

\* an item the provider lists while the job is still running
Item0 == JObj(<< <<"id", JStr("t0")>>, <<"streamAudioUrl", JStr("https://x/s.m3u8")>> >>)

StatusOnly(name) == JObj(<< <<"data", JObj(<< <<"status", JStr(name)>> >>)>> >>)

\* {"data":{"status":name,"response":{"sunoData":items}}}
WithSunoData(name, items) ==
    JObj(<< <<"data", JObj(<< <<"status", JStr(name)>>,
                              <<"response", JObj(<< <<"sunoData", JList(items)>> >>)>> >>)>> >>)

WithCode(c, doc) == JObj(<< <<"code", JNum(c)>> >> \o doc.kv)

\* {"code":500,"msg":"bad"}
DocCode500 == JObj(<< <<"code", JNum(500)>>, <<"msg", JStr("bad")>> >>)

\* poll documents with a success status and at least one record item
SuccessTrackDocs ==
    { WithSunoData("SUCCESS", <<Item1>>),
      WithCode(200, WithSunoData("DONE", <<Item1, Item1>>)),
      JObj(<< <<"status", JStr("COMPLETED")>>, <<"result", Item1>> >>) }

\* poll documents with a success status and no record item
SuccessEmptyDocs ==
    { WithSunoData("SUCCESS", <<>>),
      StatusOnly("SUCCESS"),
      WithSunoData("SUCCESS", <<JStr("x")>>),
      JObj(<< <<"status", JStr("SUCCESS")>>, <<"data", JNull>>, <<"result", JStr("soon")>> >>) }

\* poll documents with a failure status
FailedDocs ==
    { StatusOnly("FAILED"),
      JObj(<< <<"status", JStr("ERROR")>>, <<"data", JNull>> >>),
      WithSunoData("FAILED", <<Item1>>) }

\* poll documents with a status that is neither success nor failure, or none
PendingDocs ==
    { StatusOnly("PROCESSING"),
      WithCode(200, StatusOnly("PENDING")),
      WithCode(0, StatusOnly("PENDING")),
      WithSunoData("FIRST_SUCCESS", <<Item0, Item1>>),
      JObj(<< <<"msg", JStr("ok")>> >>) }

\* poll documents carrying a provider code that is not 200
ErrorCodeDocs ==
    { DocCode500,
      WithCode(500, WithSunoData("SUCCESS", <<Item1>>)),
      WithCode(500, StatusOnly("PENDING")) }

\* parsed bodies that are empty:  if st:  is false
EmptyBodies == { JObj(<<>>), JNull }

\* parsed bodies of another shape than the code expects
OddBodies ==
    { JList(<<JNum(1)>>),
      JObj(<< <<"data", JStr("oops")>> >>),
      JObj(<< <<"data", JList(<<Item1>>)>>, <<"status", JStr("SUCCESS")>> >>),
      JObj(<< <<"status", JList(<<JStr("SUCCESS")>>)>> >>) }

PollDocs ==
    SuccessTrackDocs \cup SuccessEmptyDocs \cup FailedDocs \cup PendingDocs
    \cup ErrorCodeDocs \cup EmptyBodies \cup OddBodies

\* {"data":{"taskId":"abc"}}
DocTaskAbc == JObj(<< <<"data", JObj(<< <<"taskId", JStr("abc")>> >>)>> >>)

\* submit documents that hold a job identifier
HandleDocs ==
    { DocTaskAbc,
      WithCode(200, DocTaskAbc),
      JObj(<< <<"data", JObj(<<>>)>>, <<"workId", JStr("w1")>> >>) }

\* submit documents of object shape without any job identifier
NoHandleDocs ==
    { JObj(<<>>),
      JObj(<< <<"data", JObj(<< <<"taskId", JStr("")>> >>)>>, <<"msg", JStr("ok")>> >>) }

\* submit documents carrying a provider code that is not 200
SubmitErrorCodeDocs == { DocCode500, WithCode(500, DocTaskAbc) }

\* submit bodies of another shape than the code expects
OddSubmitBodies ==
    { JList(<<>>),
      JObj(<< <<"data", JNull>> >>),
      JObj(<< <<"data", JNull>>, <<"taskId", JStr("abc")>> >>),
      JObj(<< <<"data", JStr("abc")>> >>),
      JObj(<< <<"data", JList(<<>>)>> >>) }

SubmitDocs ==
    HandleDocs \cup NoHandleDocs \cup SubmitErrorCodeDocs \cup OddSubmitBodies

(* ------------------------------ actions -------------------------------- *)

Init ==
    /\ pc = "entry"
    /\ api_key \in ApiKeys
    /\ timeout_sec \in Timeouts
    /\ poll_interval \in PollIntervals
    /\ now = 0
    /\ start = 0
    /\ attempt = 0
    /\ last_status = JNull
    /\ task_id = JNull
    /\ resp = NoResp
    /\ outcome = "none"
    /\ result = JNull
    /\ calls = NoCalls
    /\ parsed = NoParse
    /\ sleeps = <<>>

\* if not api_key: raise RuntimeError
Entry ==
    /\ pc = "entry"
    /\ IF api_key = ""
       THEN pc' = "done" /\ outcome' = "SubmissionError"
       ELSE pc' = "submit" /\ outcome' = outcome
    /\ UNCHANGED <<sleeps, parsed, api_key, timeout_sec, poll_interval, now, start, attempt,
                   last_status, task_id, resp, result, calls>>

\* requests.post(url_generate) up to  start = time.time(); attempt = 0
Submit(docs) ==
    /\ pc = "submit"
    /\ \E r \in SubmitResponses(docs), d \in NetDurs :
         /\ now' = now + d
         /\ resp' = [op |-> "submit", kind |-> r.kind, doc |-> r.doc]
         /\ calls' = [calls EXCEPT !.submit = @ + 1]
         /\ IF SubmitResult(r).exc = "none"
            THEN /\ task_id' = SubmitResult(r).task_id
                 /\ start' = now'
                 /\ pc' = "loop"
                 /\ outcome' = outcome
            ELSE /\ task_id' = task_id
                 /\ start' = start
                 /\ pc' = "done"
                 /\ outcome' = SubmitResult(r).exc
    /\ UNCHANGED <<sleeps, parsed, api_key, timeout_sec, poll_interval, attempt, last_status, result>>

\* The loop head: the deadline test, attempt += 1, and the choice to sleep.
\* The locals s and st are dead here; the model clears them.
LoopCheck ==
    /\ pc = "loop"
    /\ IF DeadlineOpen(now, start, timeout_sec)
       THEN /\ attempt' = attempt + 1
            /\ pc' = IF attempt' > 1 THEN "sleep" ELSE "get"
            /\ resp' = NoResp
            /\ calls' = [calls EXCEPT !.get = 0, !.post = 0, !.sleep = 0]
            /\ outcome' = outcome
       ELSE /\ pc' = "done"
            /\ outcome' = "TimeoutError"
            /\ UNCHANGED <<attempt, resp, calls>>
    /\ UNCHANGED <<sleeps, parsed, api_key, timeout_sec, poll_interval, now, start,
                   last_status, task_id, result>>

\* a sleep that gives up when the deadline has passed on waking
Sleep_Preemptive ==
    /\ pc = "sleep"
    /\ now' = now + Delay(poll_interval, attempt)
    /\ sleeps' = Append(sleeps, Delay(poll_interval, attempt))
    /\ calls' = [calls EXCEPT !.sleep = @ + 1]
    /\ IF DeadlineOpen(now', start, timeout_sec)
       THEN pc' = "get" /\ outcome' = outcome
       ELSE pc' = "done" /\ outcome' = "TimeoutError"
    /\ UNCHANGED <<parsed, api_key, timeout_sec, poll_interval, start, attempt,
                   last_status, task_id, resp, result>>

\* time.sleep(min(poll_interval * (1 + attempt * 0.25), 8.0))
Sleep ==
    /\ pc = "sleep"
    /\ now' = now + Delay(poll_interval, attempt)
    /\ sleeps' = Append(sleeps, Delay(poll_interval, attempt))
    /\ calls' = [calls EXCEPT !.sleep = @ + 1]
    /\ pc' = "get"
    /\ UNCHANGED <<parsed, api_key, timeout_sec, poll_interval, start, attempt,
                   last_status, task_id, resp, outcome, result>>

\* the seq without the items that occurred before
RECURSIVE Distinct(_)
Distinct(seq) ==
    IF seq = <<>> THEN <<>>
    ELSE LET front == Distinct(SubSeq(seq, 1, Len(seq) - 1))
             last == seq[Len(seq)]
         IN  IF \E i \in 1..Len(front) : front[i] = last
             THEN front
             ELSE Append(front, last)

\* the returned tracks with repeated tracks dropped
Finish_Dedup(h, after) ==
    /\ last_status' = h.last_status
    /\ CASE h.act = "fallthrough" ->
              pc' = after /\ outcome' = outcome /\ result' = result
         [] h.act = "continue" ->
              pc' = "loop" /\ outcome' = outcome /\ result' = result
         [] h.act = "return" ->
              /\ pc' = "done"
              /\ outcome' = "success"
              /\ result' = JObj(<< <<"task_id", task_id>>,
                                   <<"tracks", JList(Distinct(h.tracks.l))>> >>)
         [] h.act = "raise" ->
              pc' = "done" /\ outcome' = h.exc /\ result' = result

\* What both fetch blocks do with the outcome h of HandleResponse;
\* a block that falls through goes on at  after .
Finish(h, after) ==
    /\ last_status' = h.last_status
    /\ CASE h.act = "fallthrough" ->
              pc' = after /\ outcome' = outcome /\ result' = result
         [] h.act = "continue" ->
              pc' = "loop" /\ outcome' = outcome /\ result' = result
         [] h.act = "return" ->
              /\ pc' = "done"
              /\ outcome' = "success"
              /\ result' = JObj(<< <<"task_id", task_id>>, <<"tracks", h.tracks>> >>)
         [] h.act = "raise" ->
              pc' = "done" /\ outcome' = h.exc /\ result' = result

\* requests.get(url_record, params=...)
PollGet(docs) ==
    /\ pc = "get"
    /\ \E r \in PollResponses(docs), d \in NetDurs :
         /\ now' = now + d
         /\ resp' = [op |-> "GET", kind |-> r.kind, doc |-> r.doc]
         /\ calls' = [calls EXCEPT !.get = @ + 1]
         /\ Finish(HandleResponse(r, last_status), "post")
    /\ UNCHANGED <<sleeps, parsed, api_key, timeout_sec, poll_interval, start, attempt, task_id>>

\* requests.post(url_record, json=...)
PollPost(docs) ==
    /\ pc = "post"
    /\ \E r \in PollResponses(docs), d \in NetDurs :
         /\ now' = now + d
         /\ resp' = [op |-> "POST", kind |-> r.kind, doc |-> r.doc]
         /\ calls' = [calls EXCEPT !.post = @ + 1]
         /\ Finish(HandleResponse(r, last_status), "loop")
    /\ UNCHANGED <<sleeps, parsed, api_key, timeout_sec, poll_interval, start, attempt, task_id>>

Next ==
    \/ Entry
    \/ Submit(SubmitDocs)
    \/ LoopCheck
    \/ Sleep
    \/ PollGet(PollDocs)
    \/ PollPost(PollDocs)

Spec == Init /\ [][Next]_vars

(* ------------------------------ claims --------------------------------- *)

Elapsed == now - start

Deadline == timeout_sec * BackoffStepDen

\* the response held in resp is a parsed poll response
Polled == resp.op \in {"GET", "POST"} /\ resp.kind = "json"

\* C1: the session returns a result only on a poll response with a success
\* status and at least one normalised track; a fetch that receives a success
\* status without any track (and without a provider error code) ends at the
\* loop head with the session still waiting.
C1_SuccessNeedsTracks ==
    /\ [](outcome = "success" => Polled /\ resp.doc \in SuccessTrackDocs)
    /\ [][(pc \in {"get", "post"} /\ resp'.kind = "json"
               /\ resp'.doc \in SuccessEmptyDocs)
            => (pc' = "loop" /\ outcome' = "none" /\ result' = JNull)]_vars

C1_Witness ==
    /\ pc = "loop"
    /\ Polled
    /\ resp.doc = WithSunoData("SUCCESS", <<>>)
    /\ last_status = JStr("SUCCESS")
    /\ outcome = "none"

\* C2: a poll response with a failure status, by GET or by POST, ends the
\* session with RemoteFailure in that fetch, and a session that has ended
\* takes no further step: no fetch, no sleep, no change of outcome.
C2_FailedEndsSession ==
    /\ []((Polled /\ resp.doc \in FailedDocs)
            => (pc = "done" /\ outcome = "RemoteFailure"))
    /\ [][pc # "done"]_vars

C2_Witness ==
    /\ pc = "done"
    /\ outcome = "RemoteFailure"
    /\ resp.op = "POST"
    /\ resp.doc \in FailedDocs
    /\ Elapsed < Deadline

\* the sleep taken at the start of the current attempt
Slept == IF attempt > 1 THEN Delay(poll_interval, attempt) ELSE 0

\* C3 as stated: no fetch is issued, and no SUCCEEDED or FAILED outcome is
\* produced, at a time when the elapsed time already exceeds the deadline.
C3_Original ==
    /\ pc \in {"get", "post"} => Elapsed <= Deadline
    /\ outcome \in {"success", "RemoteFailure"} => Elapsed <= Deadline

\* C3 amended: the deadline is tested at the loop head only. When the elapsed
\* time has reached timeout_sec there, the session ends with TimeoutError and
\* issues nothing more; TimeoutError arises in no other way; a sleep or fetch
\* past the deadline belongs to an attempt whose test passed, so it starts no
\* later than that attempt's sleep and GET after the deadline.
C3_DeadlineAtLoopHead ==
    /\ [][(pc = "loop" /\ Elapsed >= Deadline)
            => (pc' = "done" /\ outcome' = "TimeoutError" /\ calls' = calls)]_vars
    /\ [][(pc = "loop" /\ Elapsed < Deadline) => pc' \in {"sleep", "get"}]_vars
    /\ [](outcome = "TimeoutError" => pc = "done" /\ Elapsed >= Deadline)
    /\ [](pc = "sleep" => Elapsed < Deadline)
    /\ [](pc = "get" => Elapsed < Deadline + Slept)
    /\ [](pc = "post" => Elapsed < Deadline + Slept + MaxNetDur)

C3_Witness ==
    /\ pc = "done"
    /\ outcome = "TimeoutError"
    /\ Elapsed > Deadline
    /\ attempt >= 2

\* the response held in resp is a GET that failed at the transport level
GetFailed ==
    /\ resp.op = "GET"
    /\ \/ resp.kind \in {"exc", "non200", "not_json"}
       \/ resp.kind = "json" /\ resp.doc \in EmptyBodies

\* C4: within one attempt at most one GET and one POST are issued, the GET
\* first; the POST is issued exactly when the GET failed at the transport
\* level (exception, non-200, unparseable or empty body).
C4_PostIffGetFailed ==
    /\ [](calls.get <= 1 /\ calls.post <= 1 /\ calls.post <= calls.get)
    /\ [](pc = "post" => calls.get = 1 /\ calls.post = 0 /\ GetFailed)
    /\ []((resp.op = "GET" /\ GetFailed) => pc = "post")
    /\ [][calls'.post > calls.post => pc = "post"]_vars
    /\ [][calls'.get > calls.get => (pc = "get" /\ calls.get = 0 /\ calls.post = 0)]_vars

C4_Witness ==
    /\ pc = "loop"
    /\ attempt >= 2
    /\ resp.op = "POST"
    /\ calls.get = 1
    /\ calls.post = 1

(* Sessions in which every poll response is a transport failure. *)
NextTransport ==
    \/ Entry
    \/ Submit(HandleDocs)
    \/ LoopCheck
    \/ Sleep
    \/ PollGet(EmptyBodies)
    \/ PollPost(EmptyBodies)

SpecTransport == Init /\ [][NextTransport]_vars

\* the response just received is a transport failure
FailedNext == resp'.kind \in {"exc", "non200", "not_json"} \/ resp'.doc \in EmptyBodies

\* C5: when the POST fails after the GET, the session goes back to the loop
\* head still waiting, the attempt stays counted (one GET and one POST per
\* counted attempt), and the next passing deadline test starts attempt + 1;
\* with transport failures only, a session that passed submission can end
\* in TimeoutError alone.
C5_TransportFailuresOnlyTimeOut ==
    /\ [][(pc = "post" /\ FailedNext)
            => (pc' = "loop" /\ outcome' = "none" /\ attempt' = attempt)]_vars
    /\ []((pc = "loop" /\ attempt >= 1) => (calls.get = 1 /\ calls.post = 1))
    /\ [][(pc = "loop" /\ Elapsed < Deadline)
            => (attempt' = attempt + 1 /\ pc' \in {"sleep", "get"})]_vars
    /\ []((pc = "done" /\ task_id # JNull) => outcome = "TimeoutError")

C5_Witness ==
    /\ pc = "loop"
    /\ attempt >= 2
    /\ resp.op = "POST"
    /\ resp.kind = "exc"
    /\ outcome = "none"

\* C6: a call that ended on a parsed response ended in one of the four
\* outcomes, a result holding a non-empty task_id and a non-empty track list.
C6_FourOutcomes ==
    (pc = "done" /\ resp.kind = "json") =>
        /\ outcome \in {"success", "SubmissionError", "RemoteFailure", "TimeoutError"}
        /\ IF outcome = "success"
           THEN Truthy(DictGet(result, "task_id")) /\ Truthy(DictGet(result, "tracks"))
           ELSE result = JNull

\* C7: a parsed poll response with a provider code other than 200 (and not
\* zero) ends the session with RemoteFailure, by GET and by POST, whatever
\* status and tracks it holds.
C7_ErrorCodeIsFatal ==
    (Polled /\ resp.doc \in ErrorCodeDocs) => (pc = "done" /\ outcome = "RemoteFailure")

C7_Witness ==
    /\ pc = "done"
    /\ outcome = "RemoteFailure"
    /\ resp.op = "POST"
    /\ resp.doc = WithCode(500, WithSunoData("SUCCESS", <<Item1>>))

(* Lookups written from the documents' shape, for the claims. *)
RECURSIVE At(_, _)
At(doc, path) ==
    IF path = <<>> THEN doc
    ELSE IF doc.t = "obj" /\ HasKey(doc, Head(path))
    THEN At(DictGet(doc, Head(path)), Tail(path))
    ELSE JNull

RECURSIVE FirstNonEmpty(_)
FirstNonEmpty(vs) ==
    IF vs = <<>> THEN JNull
    ELSE IF Truthy(Head(vs)) THEN Head(vs)
    ELSE FirstNonEmpty(Tail(vs))

\* the job identifier the documented order gives
DocumentedHandle(doc) ==
    FirstNonEmpty(<< At(doc, <<"data", "taskId">>), At(doc, <<"data", "task_id">>),
                     At(doc, <<"data", "workId">>), At(doc, <<"taskId">>),
                     At(doc, <<"task_id">>), At(doc, <<"workId">>) >>)

\* the document carries a provider code that is neither absent, zero nor 200
HasErrorCode(doc) == Truthy(At(doc, <<"code">>)) /\ At(doc, <<"code">>) # JNum(200)

\* the submit call was issued once and nothing was fetched
OnlySubmitted == calls = [NoCalls EXCEPT !.submit = 1] /\ attempt = 0

\* C8: an empty api_key ends the call with SubmissionError before any network
\* call; a submit response that is unparseable, carries a provider error
\* code, or holds no job identifier ends it with SubmissionError after the
\* one submit call and without any fetch.
C8_SubmissionErrors ==
    /\ (pc = "done" /\ api_key = "")
         => (outcome = "SubmissionError" /\ calls = NoCalls /\ resp = NoResp)
    /\ (pc # "entry" /\ pc # "submit" /\ resp.op = "submit"
          /\ \/ resp.kind = "not_json"
             \/ resp.kind = "json" /\ HasErrorCode(resp.doc)
             \/ resp.kind = "json" /\ DocumentedHandle(resp.doc) = JNull)
         => (pc = "done" /\ outcome = "SubmissionError" /\ OnlySubmitted)

(* Submission on documents that vary the six candidate locations. *)

\* a candidate location: the key left out, an empty string, or a value
Candidate(v) == {Absent, JStr(""), JStr(v)}

WrapperObjects ==
    { JObj(Field("taskId", a) \o Field("task_id", b) \o Field("workId", c)) :
        a \in Candidate("d1"), b \in Candidate("d2"), c \in Candidate("d3") }

\* the 'data' wrapper: left out, null, or an object (the empty one included)
Wrappers == {Absent, JNull} \cup WrapperObjects

HandleShapes ==
    { JObj(Field("data", w) \o Field("taskId", a) \o Field("task_id", b)
             \o Field("workId", c)) :
        w \in Wrappers,
        a \in Candidate("t1"), b \in Candidate("t2"), c \in Candidate("t3") }

NextSubmit ==
    \/ Entry
    \/ Submit(HandleShapes)

SpecSubmit == Init /\ [][NextSubmit]_vars

\* C9: after the submit call on a parsed response without provider error
\* code, the job handle is the first non-empty value in the order
\* data.taskId, data.task_id, data.workId, taskId, task_id, workId, and when
\* no location holds one (the wrapper absent, empty or null) the call ends
\* with SubmissionError.
C9_FirstCandidateWins ==
    (pc \in {"loop", "done"} /\ resp.op = "submit" /\ resp.kind = "json"
       /\ ~HasErrorCode(resp.doc))
    => IF DocumentedHandle(resp.doc) # JNull
       THEN pc = "loop" /\ task_id = DocumentedHandle(resp.doc)
       ELSE pc = "done" /\ outcome = "SubmissionError"

(* Polling on documents that vary the four status locations. *)

StatusShapes ==
    { JObj(Field("data", JObj(Field("status", a) \o Field("taskStatus", b)))
             \o Field("status", c) \o Field("taskStatus", d)) :
        a \in Candidate("PENDING"), b \in Candidate("QUEUED"),
        c \in Candidate("PROCESSING"), d \in Candidate("CREATING") }

\* a session that has just passed submission
InitPolling ==
    /\ pc = "loop"
    /\ api_key = "key"
    /\ timeout_sec = 1
    /\ poll_interval = 1
    /\ now \in NetDurs
    /\ start = now
    /\ attempt = 0
    /\ last_status = JNull
    /\ task_id = JStr("abc")
    /\ resp = [op |-> "submit", kind |-> "json", doc |-> DocTaskAbc]
    /\ outcome = "none"
    /\ result = JNull
    /\ calls = [NoCalls EXCEPT !.submit = 1]
    /\ parsed = NoParse
    /\ sleeps = <<>>

NextStatus ==
    \/ LoopCheck
    \/ Sleep
    \/ PollGet(StatusShapes)
    \/ PollPost(StatusShapes)

SpecStatus == InitPolling /\ [][NextStatus]_vars

\* the status in the order data.status, data.taskStatus, status, taskStatus
StatusDataFirst(doc) ==
    FirstNonEmpty(<< At(doc, <<"data", "status">>), At(doc, <<"data", "taskStatus">>),
                     At(doc, <<"status">>), At(doc, <<"taskStatus">>) >>)

\* the status in the order data.status, status, data.taskStatus, taskStatus
StatusNameFirst(doc) ==
    FirstNonEmpty(<< At(doc, <<"data", "status">>), At(doc, <<"status">>),
                     At(doc, <<"data", "taskStatus">>), At(doc, <<"taskStatus">>) >>)

\* C10 as stated: the status a poll response yields (remembered in
\* last_status) is the first non-empty one in the order data.status,
\* data.taskStatus, top-level status, top-level taskStatus.
C10_Original ==
    (Polled /\ StatusDataFirst(resp.doc) # JNull)
    => last_status = StatusDataFirst(resp.doc)

\* C10 amended: the order is data.status, top-level status, data.taskStatus,
\* top-level taskStatus; a response without any status leaves last_status.
C10_StatusOrder ==
    /\ [][(pc \in {"get", "post"} /\ resp'.kind = "json"
              /\ StatusNameFirst(resp'.doc) = JNull)
            => last_status' = last_status]_vars
    /\ []((Polled /\ StatusNameFirst(resp.doc) # JNull)
            => last_status = StatusNameFirst(resp.doc))

C10_Witness ==
    /\ Polled
    /\ At(resp.doc, <<"data", "status">>) = JStr("")
    /\ At(resp.doc, <<"data", "taskStatus">>) = JStr("QUEUED")
    /\ At(resp.doc, <<"status">>) = JStr("PROCESSING")
    /\ last_status = JStr("PROCESSING")

(* parse_items on documents that vary the results container and its items. *)

Rec(name) == JObj(<< <<"id", JStr(name)>> >>)

\* a container location: the key left out, an empty list, or a one-item list
Located(name) == {Absent, JList(<<>>), JList(<<Rec(name)>>)}

\* the key is left out when the object would be empty
NonEmptyObj(kv) == IF kv = <<>> THEN Absent ELSE JObj(kv)

\* documents that vary which of the six container locations are filled
LocationShapes ==
    { JObj(Field("data",
             NonEmptyObj(Field("response",
                           NonEmptyObj(Field("sunoData", a) \o Field("data", b)
                                         \o Field("songs", c)))
                         \o Field("sunoData", d) \o Field("data", e)))
           \o Field("status", JStr("SUCCESS")) \o Field("result", f)) :
        a \in Located("L1"), b \in Located("L2"), c \in Located("L3"),
        d \in Located("L4"), e \in Located("L5"), f \in Located("L6") }

\* the six documented locations of the results container
ContainerPaths ==
    { <<"data", "response", "sunoData">>, <<"data", "response", "data">>,
      <<"data", "response", "songs">>, <<"data", "sunoData">>, <<"data", "data">>,
      <<"result">> }

\* the key-value pairs that hold v under path
RECURSIVE Holding(_, _)
Holding(path, v) ==
    IF Len(path) = 1 THEN << <<Head(path), v>> >>
    ELSE << <<Head(path), JObj(Holding(Tail(path), v))>> >>

\* a success document with the container c under path and nowhere else, and
\* the container-level title t
ContainerAt(path, c, t) ==
    IF Head(path) = "data"
    THEN JObj(<< <<"data", JObj(Holding(Tail(path), c) \o Field("title", t))>>,
                 <<"status", JStr("SUCCESS")>> >>)
    ELSE JObj(Field("data", NonEmptyObj(Field("title", t)))
                \o << <<"status", JStr("SUCCESS")>> >> \o Holding(path, c))

RecA ==
    JObj(<< <<"id", JStr("a1")>>, <<"title", JStr("Song A")>>,
            <<"audioUrl", JStr("https://x/a.mp3")>> >>)

RecB ==
    JObj(<< <<"musicId", JStr("b2")>>, <<"streamAudioUrl", JStr("https://x/b.m3u8")>>,
            <<"coverUrl", JStr("https://x/b.png")>> >>)

\* items that are not records
OddItems == {JStr("x"), JNum(5), JNull, JBool(TRUE), JList(<<RecA>>)}

\* result lists: empty, records only, and records mixed with other items
ItemLists ==
    {<<>>, <<RecA>>, <<RecA, RecB>>, <<RecB, RecA>>, <<RecA, RecA>>}
    \cup {<<o>> : o \in OddItems}
    \cup {<<o, RecA>> : o \in OddItems}
    \cup {<<RecA, o, RecB>> : o \in OddItems}
    \cup {<<o, RecB, JStr("x")>> : o \in OddItems}

Titles == {Absent, JStr("Album")}

\* documents that hold one list under one of the six locations
ListShapes ==
    { ContainerAt(p, JList(l), t) : p \in ContainerPaths, l \in ItemLists, t \in Titles }

\* containers that are neither a list nor an object
ScalarContainers ==
    {JStr("soon"), JStr(""), JNum(7), JNum(0), JBool(TRUE), JBool(FALSE)}

\* documents that hold one object or one scalar under one of the six locations
SingleShapes ==
    { ContainerAt(p, c, t) :
        p \in ContainerPaths, c \in {RecA, RecB} \cup ScalarContainers, t \in Titles }

\* items that vary the candidates of id, of audioUrl and of title
FieldItems ==
    { JObj(Field("id", a) \o Field("musicId", b) \o Field("songId", c)) :
        a \in Candidate("i1"), b \in Candidate("i2"), c \in Candidate("i3") }
    \cup
    { JObj(Field("audioUrl", a) \o Field("sourceAudioUrl", b)
             \o Field("streamAudioUrl", c)) :
        a \in Candidate("u1"), b \in Candidate("u2"), c \in Candidate("u3") }
    \cup
    { JObj(<< <<"id", JStr("t1")>> >> \o Field("title", a)) : a \in Candidate("Song") }

\* documents that hold such an item before RecB, with the container-level
\* title varied
FieldShapes ==
    { ContainerAt(<<"data", "response", "sunoData">>, JList(<<it, RecB>>), t) :
        it \in FieldItems, t \in Candidate("Album") }

ParseShapes == LocationShapes \cup ListShapes \cup SingleShapes \cup FieldShapes

\* the program at  status, items = parse_items(st)  with st just received
InitParse ==
    /\ pc = "parse"
    /\ api_key = "key"
    /\ timeout_sec = 1
    /\ poll_interval = 1
    /\ now = 1
    /\ start = 0
    /\ attempt = 1
    /\ last_status = JNull
    /\ task_id = JStr("abc")
    /\ resp \in {[op |-> "GET", kind |-> "json", doc |-> d] : d \in ParseShapes}
    /\ outcome = "none"
    /\ result = JNull
    /\ calls = [NoCalls EXCEPT !.submit = 1, !.get = 1]
    /\ parsed = NoParse
    /\ sleeps = <<>>

\* status, items = parse_items(st)
ParseCall ==
    /\ pc = "parse"
    /\ parsed' = parse_items(resp.doc)
    /\ pc' = "parsed"
    /\ UNCHANGED <<api_key, timeout_sec, poll_interval, now, start, attempt,
                   last_status, task_id, resp, outcome, result, calls, sleeps>>

SpecParse == InitParse /\ [][ParseCall]_vars

\* the original items behind a normalised track list
Raws(items) == [i \in 1..Len(items.l) |-> At(items.l[i], <<"raw">>)]

\* the container the documented order of locations gives
DocumentedContainer(doc) ==
    FirstNonEmpty(<< At(doc, <<"data", "response", "sunoData">>),
                     At(doc, <<"data", "response", "data">>),
                     At(doc, <<"data", "response", "songs">>),
                     At(doc, <<"data", "sunoData">>),
                     At(doc, <<"data", "data">>),
                     At(doc, <<"result">>) >>)

\* C11: the tracks come from the first location, in the order
\* data.response.sunoData, data.response.data, data.response.songs,
\* data.sunoData, data.data, result, that holds results; a later location is
\* used whenever the earlier ones are absent or empty.
C11_FirstLocationWins ==
    (pc = "parsed" /\ resp.doc \in LocationShapes) =>
        IF DocumentedContainer(resp.doc) = JNull
        THEN parsed.items = JNull
        ELSE /\ parsed.items # JNull
             /\ Raws(parsed.items) = DocumentedContainer(resp.doc).l

\* C12: a document that holds a list of items under one documented location
\* and under no other normalises to the same status and track list (length,
\* order, field values) as the document that holds the same list, with the
\* same container-level title, under any other of the six locations.
C12_LocationInvariant ==
    pc = "parsed" =>
        \A p \in ContainerPaths, l \in ItemLists, t \in Titles :
            resp.doc = ContainerAt(p, JList(l), t) =>
                \A q \in ContainerPaths :
                    parse_items(ContainerAt(q, JList(l), t)) = parsed

C12_Witness ==
    /\ pc = "parsed"
    /\ resp.doc = ContainerAt(<<"result">>, JList(<<RecA, JNum(5), RecB>>), JStr("Album"))
    /\ parsed.items # JNull
    /\ Len(parsed.items.l) = 2
    /\ At(parsed.items.l[2], <<"title">>) = JStr("Album")

\* the record items of a list, in their order
RECURSIVE RecordsOf(_)
RecordsOf(s) ==
    IF s = <<>> THEN <<>>
    ELSE IF Head(s).t = "obj" THEN <<Head(s)>> \o RecordsOf(Tail(s))
    ELSE RecordsOf(Tail(s))

\* the record items of the container the document holds
DocumentedRecords(doc) ==
    CASE DocumentedContainer(doc).t = "list" -> RecordsOf(DocumentedContainer(doc).l)
      [] DocumentedContainer(doc).t = "obj"  -> <<DocumentedContainer(doc)>>
      [] OTHER -> <<>>

\* C13: on a list of items parse_items raises nothing, gives one track per
\* record item in the original order and none for any other item, and
\* returns None, never an empty list, when no record item is left.
C13_SkipsNonRecords ==
    (pc = "parsed" /\ resp.doc \in ListShapes) =>
        /\ parsed.exc = "none"
        /\ parsed.items # JList(<<>>)
        /\ IF DocumentedRecords(resp.doc) = <<>>
           THEN parsed.items = JNull
           ELSE /\ parsed.items.t = "list"
                /\ Raws(parsed.items) = DocumentedRecords(resp.doc)

C13_Witness ==
    /\ pc = "parsed"
    /\ At(resp.doc, <<"data", "data">>) = JList(<<JNull, RecB, JStr("x")>>)
    /\ parsed.exc = "none"
    /\ parsed.items # JNull
    /\ Raws(parsed.items) = <<RecB>>

\* C14: a container that is a single object gives the track of that object
\* alone; a container that is a string, a number or a boolean gives tracks
\* None; neither raises an error.
C14_ContainerShape ==
    (pc = "parsed" /\ resp.doc \in SingleShapes) =>
        /\ parsed.exc = "none"
        /\ \A p \in ContainerPaths :
             /\ At(resp.doc, p).t = "obj"
                  => (parsed.items # JNull /\ Raws(parsed.items) = <<At(resp.doc, p)>>)
             /\ At(resp.doc, p).t \in {"str", "num", "bool"}
                  => parsed.items = JNull

C14_Witness ==
    /\ pc = "parsed"
    /\ At(resp.doc, <<"data", "sunoData">>) = RecB
    /\ parsed.items # JNull
    /\ Len(parsed.items.l) = 1
    /\ At(parsed.items.l[1], <<"id">>) = JStr("b2")

\* the value a field takes from its candidates: the first non-empty one, and
\* an empty value when there is none
TakesFirst(value, candidates) ==
    IF FirstNonEmpty(candidates) # JNull
    THEN value = FirstNonEmpty(candidates)
    ELSE ~Truthy(value)

\* C15: every track takes id from id, musicId, songId, audioUrl from
\* audioUrl, sourceAudioUrl, streamAudioUrl, and title from the item's
\* title, data.title, 'MAS Demo Track', each time the first non-empty one;
\* title is never empty and raw is the item itself.
C15_FieldPriority ==
    (pc = "parsed" /\ resp.doc \in FieldShapes \cup ListShapes) =>
        LET its == DocumentedRecords(resp.doc)
        IN  its # <<>> =>
              /\ parsed.items # JNull
              /\ Len(parsed.items.l) = Len(its)
              /\ \A i \in 1..Len(its) :
                   LET tr == parsed.items.l[i]
                       it == its[i]
                   IN  /\ At(tr, <<"raw">>) = it
                       /\ TakesFirst(At(tr, <<"id">>),
                             << At(it, <<"id">>), At(it, <<"musicId">>),
                                At(it, <<"songId">>) >>)
                       /\ TakesFirst(At(tr, <<"audioUrl">>),
                             << At(it, <<"audioUrl">>), At(it, <<"sourceAudioUrl">>),
                                At(it, <<"streamAudioUrl">>) >>)
                       /\ Truthy(At(tr, <<"title">>))
                       /\ At(tr, <<"title">>) =
                             FirstNonEmpty(<< At(it, <<"title">>),
                                              At(resp.doc, <<"data", "title">>),
                                              JStr("MAS Demo Track") >>)

C15_Witness ==
    /\ pc = "parsed"
    /\ resp.doc \in FieldShapes
    /\ At(resp.doc, <<"data", "title">>) = JStr("")
    /\ At(resp.doc, <<"data", "response", "sunoData">>).l[1]
         = JObj(<< <<"sourceAudioUrl", JStr("")>>, <<"streamAudioUrl", JStr("u3")>> >>)
    /\ At(parsed.items.l[1], <<"audioUrl">>) = JStr("u3")
    /\ At(parsed.items.l[1], <<"title">>) = JStr("MAS Demo Track")

(* The result, the sleeps and the timeout of whole sessions. *)

\* C16: the handle is the one the submit response gave and is never assigned
\* again; result is written only by the fetch that returns, and then holds
\* that handle and the tracks of that fetch's response as parse_items gives
\* them, whatever earlier responses held.
C16_ResultFromFinalResponse ==
    /\ []((pc = "loop" /\ resp.op = "submit")
            => task_id = DocumentedHandle(resp.doc))
    /\ [][pc \notin {"entry", "submit"} => task_id' = task_id]_vars
    /\ [][outcome' # "success" => result' = JNull]_vars
    /\ []((outcome = "success")
            => /\ Polled
               /\ At(result, <<"task_id">>) = task_id
               /\ At(result, <<"tracks">>) = parse_items(resp.doc).items
               /\ Raws(At(result, <<"tracks">>)) = DocumentedRecords(resp.doc))

C16_Witness ==
    /\ outcome = "success"
    /\ attempt = 2
    /\ task_id = JStr("w1")
    /\ resp.op = "POST"
    /\ resp.doc = WithCode(200, WithSunoData("DONE", <<Item1, Item1>>))
    /\ At(result, <<"task_id">>) = JStr("w1")
    /\ Raws(At(result, <<"tracks">>)) = <<Item1, Item1>>

(* Long sessions that never receive a result, for every base interval. *)

InitBackoff ==
    /\ pc = "loop"
    /\ api_key = "key"
    /\ timeout_sec = LongTimeoutSec
    /\ poll_interval \in 1..MaxPollInterval
    /\ now = 1
    /\ start = now
    /\ attempt = 0
    /\ last_status = JNull
    /\ task_id = JStr("abc")
    /\ resp = [op |-> "submit", kind |-> "json", doc |-> DocTaskAbc]
    /\ outcome = "none"
    /\ result = JNull
    /\ calls = [NoCalls EXCEPT !.submit = 1]
    /\ parsed = NoParse
    /\ sleeps = <<>>

NextBackoff ==
    \/ LoopCheck
    \/ Sleep
    \/ PollGet({StatusOnly("PROCESSING")})
    \/ PollPost({StatusOnly("PROCESSING")})

SpecBackoff == InitBackoff /\ [][NextBackoff]_vars

\* C17: the delays slept in a session never decrease from one attempt to the
\* next, and none exceeds 8.0 seconds.
C17_BackoffMonotoneCapped ==
    /\ \A i \in 1..Len(sleeps) : sleeps[i] <= MaxBackoffSec * BackoffStepDen
    /\ \A i \in 1..(Len(sleeps) - 1) : sleeps[i] <= sleeps[i + 1]

C17_Witness ==
    /\ Len(sleeps) >= 3
    /\ sleeps[1] < sleeps[2]
    /\ sleeps[Len(sleeps) - 1] < MaxBackoffSec * BackoffStepDen
    /\ sleeps[Len(sleeps)] = MaxBackoffSec * BackoffStepDen

\* C18: the first deadline test of a session passes and starts attempt 1, so
\* a session that ends with TimeoutError has made at least one attempt and
\* issued its GET.
C18_TimeoutAfterAttempt ==
    /\ [][(pc = "loop" /\ attempt = 0) => (pc' = "get" /\ attempt' = 1)]_vars
    /\ [](outcome = "TimeoutError" => (attempt >= 1 /\ calls.get = 1))

C18_Witness ==
    /\ outcome = "TimeoutError"
    /\ attempt = 1
    /\ resp.op = "POST"
    /\ resp.doc = WithCode(200, StatusOnly("PENDING"))
    /\ last_status = JStr("PENDING")

\* C19: last_status is None until a poll response carries a non-empty
\* status, is then the status of the most recent response that carried one,
\* and is left alone by a response without status, by the sleep and by the
\* deadline test; the TimeoutError is raised with that value and with the
\* handle of the session.
C19_TimeoutCarriesLastStatus ==
    /\ [](attempt = 0 => last_status = JNull)
    /\ [][(pc \in {"get", "post"} /\ pc' # "done")
            => last_status' =
                 IF resp'.kind = "json" /\ StatusNameFirst(resp'.doc) # JNull
                 THEN StatusNameFirst(resp'.doc)
                 ELSE last_status]_vars
    /\ [][(pc \in {"loop", "sleep"})
            => (last_status' = last_status /\ task_id' = task_id)]_vars
    /\ [](outcome = "TimeoutError" => Truthy(task_id))

C19_Witness ==
    /\ outcome = "TimeoutError"
    /\ Polled
    /\ resp.doc = JObj(<< <<"msg", JStr("ok")>> >>)
    /\ last_status = JStr("PROCESSING")
    /\ task_id = JStr("abc")

\* C20: the GET of attempt 1 is issued without any sleep, the GET of every
\* later attempt after exactly one sleep in that attempt, and the sleep
\* before attempt k lasts min(poll_interval * (1 + k * 0.25), 8.0) seconds
\* (in quarter seconds: min(poll_interval * (4 + k), 32)).
C20_OneSleepPerLaterAttempt ==
    /\ pc \in {"get", "post"}
         => /\ calls.sleep = (IF attempt = 1 THEN 0 ELSE 1)
            /\ Len(sleeps) = attempt - 1
    /\ \A k \in 2..(Len(sleeps) + 1) :
         sleeps[k - 1] = IF poll_interval * (4 + k) <= 32
                         THEN poll_interval * (4 + k)
                         ELSE 32

C20_Witness ==
    /\ pc = "get"
    /\ attempt = 4
    /\ poll_interval = 1
    /\ calls.sleep = 1
    /\ sleeps = <<6, 7, 8>>

\* C21: TimeoutError arises only in a step taken at the loop head, which
\* issues no call and takes no time; an attempt that has passed the test
\* sleeps its whole delay (attempt 1 excepted), then issues its GET, and its
\* POST when the GET failed, whatever the elapsed time has become; back at
\* the loop head the attempt has made exactly these calls.
C21_DeadlineBetweenAttempts ==
    /\ [][(outcome' = "TimeoutError")
            => (pc = "loop" /\ pc' = "done" /\ now' = now /\ calls' = calls
                  /\ attempt' = attempt)]_vars
    /\ [][(pc = "loop" /\ pc' # "done")
            => (attempt' = attempt + 1 /\ now' = now)]_vars
    /\ [][(pc = "sleep")
            => (pc' = "get" /\ outcome' = "none" /\ attempt' = attempt
                  /\ now' - now = Slept)]_vars
    /\ [][(pc = "get")
            => (calls'.get = 1 /\ attempt' = attempt
                  /\ IF GetFailed' THEN pc' = "post" ELSE pc' \in {"loop", "done"})]_vars
    /\ [][(pc = "post") => (calls'.post = 1 /\ attempt' = attempt)]_vars
    /\ []((pc = "loop" /\ attempt >= 1)
            => /\ calls.sleep = (IF attempt > 1 THEN 1 ELSE 0)
               /\ calls.get = 1
               /\ calls.post = (IF resp.op = "POST" THEN 1 ELSE 0))

C21_Witness ==
    /\ pc = "loop"
    /\ attempt = 2
    /\ resp.op = "POST"
    /\ calls = [submit |-> 1, get |-> 1, post |-> 1, sleep |-> 1]
    /\ Elapsed >= Deadline + 2 * MaxNetDur

(* Sessions after submission in which every enabled step is eventually taken:
   time.sleep returns, and each request returns or raises within its
   timeout=(10, 45). *)

\* a session that has just passed submission, for every deadline and interval
InitWaiting ==
    /\ pc = "loop"
    /\ api_key = "key"
    /\ timeout_sec \in Timeouts
    /\ poll_interval \in PollIntervals
    /\ now \in NetDurs
    /\ start = now
    /\ attempt = 0
    /\ last_status = JNull
    /\ task_id = JStr("abc")
    /\ resp = [op |-> "submit", kind |-> "json", doc |-> DocTaskAbc]
    /\ outcome = "none"
    /\ result = JNull
    /\ calls = [NoCalls EXCEPT !.submit = 1]
    /\ parsed = NoParse
    /\ sleeps = <<>>

NextWaiting ==
    \/ LoopCheck
    \/ Sleep
    \/ PollGet(PollDocs)
    \/ PollPost(PollDocs)

SpecLive == InitWaiting /\ [][NextWaiting]_vars /\ WF_vars(NextWaiting)

\* the document gives SUCCESS with at least one track
GivesSuccess(doc) ==
    /\ StatusNameFirst(doc) \in {JStr("SUCCESS"), JStr("DONE"), JStr("COMPLETED")}
    /\ DocumentedRecords(doc) # <<>>

\* the document gives FAILED: a failure status or a provider error code
GivesFailed(doc) ==
    \/ StatusNameFirst(doc) \in {JStr("FAILED"), JStr("ERROR")}
    \/ HasErrorCode(doc)

\* the response held in resp gives neither SUCCESS with tracks nor FAILED
NonTerminal == ~(Polled /\ (GivesSuccess(resp.doc) \/ GivesFailed(resp.doc)))

\* C22: every session that passed submission terminates, and a session
\* whose poll responses never give SUCCESS with tracks nor FAILED ends with
\* TimeoutError.
C22_EventuallyTimedOut ==
    /\ <>(pc = "done")
    /\ []((pc = "done" /\ NonTerminal) => outcome = "TimeoutError")

\* Every session terminates, and one whose responses give neither SUCCESS
\* with tracks nor FAILED ends with TimeoutError unless a response of
\* another shape than the code expects raised AttributeError or TypeError.
TerminatesOrEscapes ==
    /\ <>(pc = "done")
    /\ []((pc = "done" /\ NonTerminal)
            => outcome \in {"TimeoutError", "AttributeError", "TypeError"})
    /\ []((pc = "done" /\ NonTerminal /\ outcome # "TimeoutError")
            => resp.doc \in OddBodies)

====
